---- MODULE Spec2Model ----
(***************************************************************************)
(* Share / ShareOption of classes.py: construction (with the strptime      *)
(* parse of the expiry string), the read-only methods, and the             *)
(* Black-Scholes valuation calculate_option_value with the exceptions      *)
(* Python raises on its way.                                               *)
(*                                                                         *)
(* Numbers.  A Python float is modelled as a fixed-point number: the       *)
(* integer n stands for n / Scale.  Products and quotients are truncated   *)
(* towards zero, so, as for IEEE doubles, every operation is exact up to   *)
(* one unit in the last place and is symmetric in the sign.  One value     *)
(* outside that range is kept: Huge, a double above sqrt(DBL_MAX)          *)
(* (1e200, say), whose square CPython refuses with OverflowError.          *)
(*                                                                         *)
(* Time.  An instant is a number of ticks since 0001-01-01 00:00, with     *)
(* TicksPerDay ticks in a day; a datetime built by strptime lies at        *)
(* midnight, i.e. at a multiple of TicksPerDay.                            *)
(***************************************************************************)
EXTENDS Integers, Sequences, FiniteSets, TLC

(* ------------------------------ bounds -------------------------------- *)

\* resolution of the modelled floats: n stands for n / Scale
Scale == 1000

\* instants per calendar day
TicksPerDay == 2

\* how many ticks the clock may run past StartInstant
MaxElapsed == 3

(* ------------------------- float arithmetic --------------------------- *)

Abs(x) == IF x < 0 THEN -x ELSE x

\* a double above sqrt(DBL_MAX); the only thing done with it is ** 2
Huge == 2000000 * Scale

\* the quotient a / b rounded towards zero, b # 0
TDiv(a, b) ==
  IF (a >= 0) = (b > 0) THEN Abs(a) \div Abs(b) ELSE -(Abs(a) \div Abs(b))

\* a * b on floats
FMul(a, b) == TDiv(a * b, Scale)

\* a / b on floats, b # 0 (Python raises ZeroDivisionError before dividing)
FDiv(a, b) == TDiv(a * Scale, b)

RECURSIVE ISqrtBetween(_, _, _)
\* the largest r in lo..hi with r * r <= n
ISqrtBetween(n, lo, hi) ==
  IF lo >= hi THEN lo
  ELSE LET mid == (lo + hi + 1) \div 2
       IN  IF mid * mid <= n THEN ISqrtBetween(n, mid, hi)
           ELSE ISqrtBetween(n, lo, mid - 1)

\* math.sqrt(x) for x >= 0 (math.sqrt raises ValueError below 0)
Sqrt(x) == ISqrtBetween(x * Scale, 0, 46340)

RECURSIVE LnSeries(_, _, _)
\* z^k/k + z^(k+2)/(k+2) + ... with zk = z^k, up to the 9th power
LnSeries(z, zk, k) ==
  IF k > 9 \/ zk = 0 THEN 0
  ELSE TDiv(zk, k) + LnSeries(z, FMul(FMul(zk, z), z), k + 2)

Ln2 == (693147 * Scale) \div 1000000

RECURSIVE Ln(_)
\* math.log(x) for x > 0 (math.log raises ValueError at and below 0)
Ln(x) ==
  IF x >= 2 * Scale THEN Ln2 + Ln(x \div 2)
  ELSE IF x < Scale THEN Ln(2 * x) - Ln2
  ELSE 2 * LnSeries(FDiv(x - Scale, x + Scale), FDiv(x - Scale, x + Scale), 1)

RECURSIVE ExpSeries(_, _, _)
\* t + t*f/k + t*f^2/(k(k+1)) + ...: the Taylor series of exp from term t on
ExpSeries(f, t, k) ==
  IF t = 0 \/ k > 12 THEN 0
  ELSE t + ExpSeries(f, TDiv(FMul(t, f), k), k + 1)

InvE == (367879 * Scale) \div 1000000

RECURSIVE ExpNeg(_)
\* exp(-y) for y >= 0
ExpNeg(y) ==
  IF y >= 20 * Scale THEN 0
  ELSE IF y >= Scale THEN FMul(InvE, ExpNeg(y - Scale))
  ELSE LET s == ExpSeries(-y, Scale, 1) IN IF s < 0 THEN 0 ELSE s

\* math.exp(x); the valuation reaches it with x = -r*T and T >= 0 only
Exp(x) == IF x <= 0 THEN ExpNeg(-x) ELSE FDiv(Scale, ExpNeg(x))

\* 1 / sqrt(2 pi)
InvSqrt2Pi == (398942 * Scale) \div 1000000

\* the coefficients of the tail polynomial of the normal distribution
CdfP  == (231642 * Scale) \div 1000000
CdfB1 == (319382 * Scale) \div 1000000
CdfB2 == (356564 * Scale) \div 1000000
CdfB3 == (1781478 * Scale) \div 1000000
CdfB4 == (1821256 * Scale) \div 1000000
CdfB5 == (1330274 * Scale) \div 1000000

\* the upper tail 1 - Phi(z) of the standard normal distribution, z >= 0
NormTail(z) ==
  IF z >= 9 * Scale THEN 0
  ELSE LET t    == FDiv(Scale, Scale + FMul(CdfP, z))
           poly == FMul(t, CdfB1 - FMul(t, CdfB2 - FMul(t, CdfB3
                     - FMul(t, CdfB4 - FMul(t, CdfB5)))))
           y    == FMul(FMul(InvSqrt2Pi, ExpNeg(FMul(z, z) \div 2)), poly)
       IN  IF y > Scale \div 2 THEN Scale \div 2 ELSE y

\* erf(a / sqrt 2) / 2, an odd function of a
HalfErf(a) ==
  IF a = 0 THEN 0
  ELSE IF a > 0 THEN Scale \div 2 - NormTail(a)
  ELSE -(Scale \div 2 - NormTail(-a))

\* scipy.stats.norm.cdf(a) (ndtr): around 0 it is 1/2 + erf(a/sqrt 2)/2, in
\* the tails it is the tail below 0 and 1 - tail above
NormCdf(a) ==
  IF Abs(a) < Scale THEN Scale \div 2 + HalfErf(a)
  ELSE IF a > 0 THEN Scale - NormTail(a) ELSE NormTail(-a)

(* ----------------------------- outcomes ------------------------------- *)

\* how a call ends: it returns a value or it raises an exception
Return(v) == [status |-> "return", value |-> v]
Raise(e) == [status |-> "raise", exc |-> e]

(* ------------------------------ dates --------------------------------- *)

IsLeap(year) == year % 4 = 0 /\ (year % 100 # 0 \/ year % 400 = 0)

DaysInMonth(year, month) ==
  IF month = 2 THEN (IF IsLeap(year) THEN 29 ELSE 28)
  ELSE IF month \in {4, 6, 9, 11} THEN 30 ELSE 31

RECURSIVE DaysBeforeMonth(_, _)
DaysBeforeMonth(year, month) ==
  IF month <= 1 THEN 0
  ELSE DaysInMonth(year, month - 1) + DaysBeforeMonth(year, month - 1)

DaysBeforeYear(year) ==
  LET y == year - 1 IN y * 365 + y \div 4 - y \div 100 + y \div 400

\* datetime.toordinal(): 0001-01-01 is day 1
Ymd2Ord(date) ==
  DaysBeforeYear(date.year) + DaysBeforeMonth(date.year, date.month) + date.day

\* the instant of a datetime at midnight
Midnight(date) == (Ymd2Ord(date) - 1) * TicksPerDay

\* (a - b).days for two instants: timedelta keeps 0 <= seconds < 86400, so
\* days is the floor
DeltaDays(a, b) == (a - b) \div TicksPerDay

IsDigit(c) == c \in {"0", "1", "2", "3", "4", "5", "6", "7", "8", "9"}

DigitVal(c) ==
  CASE c = "0" -> 0 [] c = "1" -> 1 [] c = "2" -> 2 [] c = "3" -> 3
    [] c = "4" -> 4 [] c = "5" -> 5 [] c = "6" -> 6 [] c = "7" -> 7
    [] c = "8" -> 8 [] c = "9" -> 9

\* the character of s at position i, "" past the end
At(s, i) == IF i >= 1 /\ i <= Len(s) THEN SubSeq(s, i, i) ELSE ""

RECURSIVE IntOf(_)
\* int() of a string of digits; int() strips the blanks around them
IntOf(s) ==
  IF Len(s) = 0 THEN 0
  ELSE IF At(s, 1) = " " THEN IntOf(SubSeq(s, 2, Len(s)))
  ELSE 10 * IntOf(SubSeq(s, 1, Len(s) - 1)) + DigitVal(At(s, Len(s)))

\* %Y: \d\d\d\d
MatchY(s, p) == \A k \in 0 .. 3 : IsDigit(At(s, p + k))

\* %m: 1[0-2]|0[1-9]|[1-9], the lengths that match at p in the order tried
MatchM(s, p) ==
  LET a == At(s, p)
      b == At(s, p + 1)
  IN  (IF a = "1" /\ b \in {"0", "1", "2"} THEN <<2>> ELSE <<>>)
      \o (IF a = "0" /\ IsDigit(b) /\ b # "0" THEN <<2>> ELSE <<>>)
      \o (IF IsDigit(a) /\ a # "0" THEN <<1>> ELSE <<>>)

\* %d: 3[0-1]|[1-2]\d|0[1-9]|[1-9]| [1-9]
MatchD(s, p) ==
  LET a == At(s, p)
      b == At(s, p + 1)
  IN  (IF a = "3" /\ b \in {"0", "1"} THEN <<2>> ELSE <<>>)
      \o (IF a \in {"1", "2"} /\ IsDigit(b) THEN <<2>> ELSE <<>>)
      \o (IF a = "0" /\ IsDigit(b) /\ b # "0" THEN <<2>> ELSE <<>>)
      \o (IF IsDigit(a) /\ a # "0" THEN <<1>> ELSE <<>>)
      \o (IF a = " " /\ IsDigit(b) /\ b # "0" THEN <<2>> ELSE <<>>)

\* the match of the regular expression of "%Y-%m-%d" at the start of s: the
\* lengths <<m, d>> of the first alternatives that make the whole
\* expression match, <<>> when it does not match
MatchFormat(s) ==
  IF ~(MatchY(s, 1) /\ At(s, 5) = "-") THEN <<>>
  ELSE LET good == SelectSeq(MatchM(s, 6),
                     LAMBDA m : At(s, 6 + m) = "-" /\ MatchD(s, 7 + m) # <<>>)
       IN  IF good = <<>> THEN <<>>
           ELSE <<Head(good), Head(MatchD(s, 7 + Head(good)))>>

\* datetime.strptime(s, "%Y-%m-%d"): a date, or the ValueError it raises
Strptime(s) ==
  LET found == MatchFormat(s)
  IN  IF found = <<>>
        THEN Raise("ValueError: time data does not match format")
      ELSE LET m    == found[1]
               d    == found[2]
               date == [year  |-> IntOf(SubSeq(s, 1, 4)),
                        month |-> IntOf(SubSeq(s, 6, 5 + m)),
                        day   |-> IntOf(SubSeq(s, 7 + m, 6 + m + d))]
           IN  IF Len(s) # 6 + m + d
                 THEN Raise("ValueError: unconverted data remains")
               ELSE IF date.year < 1
                 THEN Raise("ValueError: year is out of range")
               ELSE IF date.day > DaysInMonth(date.year, date.month)
                 THEN Raise("ValueError: day is out of range for month")
               ELSE Return(date)

RECURSIVE Digits(_)
\* the decimal digits of n >= 0
Digits(n) ==
  LET c == SubSeq("0123456789", (n % 10) + 1, (n % 10) + 1)
  IN  IF n < 10 THEN c ELSE Digits(n \div 10) \o c

RECURSIVE ZeroPad(_, _)
ZeroPad(str, width) == IF Len(str) >= width THEN str ELSE ZeroPad("0" \o str, width)

\* date.strftime("%Y-%m-%d")
Strftime(date) ==
  ZeroPad(Digits(date.year), 4) \o "-" \o ZeroPad(Digits(date.month), 2)
    \o "-" \o ZeroPad(Digits(date.day), 2)

(* ------------------------------ classes ------------------------------- *)

\* Share.__init__: the six attributes, stored as given
ShareInit(ticker, share_price, volatility, market_cap, dividend_yield, sector) ==
  [class |-> "Share", ticker |-> ticker, share_price |-> share_price,
   volatility |-> volatility, market_cap |-> market_cap,
   dividend_yield |-> dividend_yield, sector |-> sector]

\* ShareOption.__init__: the Share attributes, then the parsed expiry date;
\* when strptime raises, the exception leaves the constructor and no object
\* is bound
ShareOptionInit(ticker, share_price, volatility, market_cap, dividend_yield, sector, expiry_date) ==
  LET base   == ShareInit(ticker, share_price, volatility, market_cap,
                          dividend_yield, sector)
      parsed == Strptime(expiry_date)
  IN  IF parsed.status = "raise" THEN parsed
      ELSE Return([class |-> "ShareOption", ticker |-> base.ticker,
                   share_price |-> base.share_price,
                   volatility |-> base.volatility,
                   market_cap |-> base.market_cap,
                   dividend_yield |-> base.dividend_yield,
                   sector |-> base.sector, expiry_date |-> parsed.value])

\* Share.__repr__: the attributes in order (the text of a number is the
\* number)
ShareRepr(self) ==
  <<"Share(ticker=", self.ticker, ", share_price=", self.share_price,
    ", volatility=", self.volatility, ", market_cap=", self.market_cap,
    ", dividend_yield=", self.dividend_yield, ", sector=", self.sector, ")">>

\* ShareOption.__repr__
ShareOptionRepr(self) ==
  ShareRepr(self) \o <<", expiry_date=" \o Strftime(self.expiry_date)>>

\* Share.calculate_annualized_volatility: volatility * trading_days ** 0.5
\* (a multiple of Huge by a factor of 1 or more is Huge again)
AnnualizedVolatility(self, trading_days) ==
  IF self.volatility = Huge THEN Huge
  ELSE FMul(self.volatility, Sqrt(trading_days * Scale))

\* ShareOption.calculate_risk_free_rate: the placeholder 0.03
RiskFreeRate == (3 * Scale) \div 100

DaysPerYear == 365

\* a slip: the difference taken the other way round, now - expiry_date
TimeToExpiryReversed(expiry_date, at) ==
  TDiv(DeltaDays(at, Midnight(expiry_date)) * Scale, DaysPerYear)

\* a slip: the whole difference (total_seconds) in place of its .days
TimeToExpiryExact(expiry_date, at) ==
  TDiv((Midnight(expiry_date) - at) * Scale, DaysPerYear * TicksPerDay)

\* (self.expiry_date - datetime.now()).days / 365.0
TimeToExpiry(expiry_date, at) ==
  TDiv(DeltaDays(Midnight(expiry_date), at) * Scale, DaysPerYear)

\* self.volatility ** 2 raises OverflowError when the square is no double
SquareOverflows(volatility) == Abs(volatility) >= Huge

\* a slip: a plain else for the put, so that any other type is valued as one
PayoffElsePut(option_type, share_price, strike_price, discount, d1, d2) ==
  IF option_type = "call"
    THEN Return(FMul(share_price, NormCdf(d1))
                - FMul(FMul(strike_price, discount), NormCdf(d2)))
  ELSE Return(FMul(FMul(strike_price, discount), NormCdf(-d2))
              - FMul(share_price, NormCdf(-d1)))

\* a slip: the put valued with N(d2) and N(d1) in place of N(-d2) and N(-d1)
PayoffPutUnnegated(option_type, share_price, strike_price, discount, d1, d2) ==
  IF option_type = "call"
    THEN Return(FMul(share_price, NormCdf(d1))
                - FMul(FMul(strike_price, discount), NormCdf(d2)))
  ELSE IF option_type = "put"
    THEN Return(FMul(FMul(strike_price, discount), NormCdf(d2))
                - FMul(share_price, NormCdf(d1)))
  ELSE Raise("ValueError: Invalid option type")

\* the two branches of the Black-Scholes formula and the else branch
Payoff(option_type, share_price, strike_price, discount, d1, d2) ==
  IF option_type = "call"
    THEN Return(FMul(share_price, NormCdf(d1))
                - FMul(FMul(strike_price, discount), NormCdf(d2)))
  ELSE IF option_type = "put"
    THEN Return(FMul(FMul(strike_price, discount), NormCdf(-d2))
                - FMul(share_price, NormCdf(-d1)))
  ELSE Raise("ValueError: Invalid option type")

\* a slip: the option type validated on entry, before any arithmetic
OptionValueKindFirst(self, strike_price, option_type, at) ==
  LET time_to_expiry == TimeToExpiry(self.expiry_date, at)
      ratio == FDiv(self.share_price, strike_price)
      drift == FMul(RiskFreeRate + FMul(Scale \div 2,
                      FMul(self.volatility, self.volatility)), time_to_expiry)
      spread == FMul(self.volatility, Sqrt(time_to_expiry))
      d1 == FDiv(Ln(ratio) + drift, spread)
  IN  IF option_type \notin {"call", "put"}
        THEN Raise("ValueError: Invalid option type")
      ELSE IF strike_price = 0 THEN Raise("ZeroDivisionError")
      ELSE IF ratio <= 0 THEN Raise("ValueError: math domain error")
      ELSE IF SquareOverflows(self.volatility) THEN Raise("OverflowError")
      ELSE IF time_to_expiry < 0 THEN Raise("ValueError: math domain error")
      ELSE IF spread = 0 THEN Raise("ZeroDivisionError")
      ELSE Payoff(option_type, self.share_price, strike_price,
                  Exp(-FMul(RiskFreeRate, time_to_expiry)), d1, d1 - spread)

\* ShareOption.calculate_option_value at the instant `at`, in the order
\* Python evaluates it: S / K, math.log, volatility ** 2, math.sqrt, the
\* division by volatility * sqrt(T), d2, then the option type
OptionValue(self, strike_price, option_type, at) ==
  LET time_to_expiry == TimeToExpiry(self.expiry_date, at)
      risk_free_rate == RiskFreeRate
      ratio == FDiv(self.share_price, strike_price)
      drift == FMul(risk_free_rate + FMul(Scale \div 2,
                      FMul(self.volatility, self.volatility)), time_to_expiry)
      spread == FMul(self.volatility, Sqrt(time_to_expiry))
      d1 == FDiv(Ln(ratio) + drift, spread)
      d2 == d1 - spread
  IN  IF strike_price = 0 THEN Raise("ZeroDivisionError")
      ELSE IF ratio <= 0 THEN Raise("ValueError: math domain error")
      ELSE IF SquareOverflows(self.volatility) THEN Raise("OverflowError")
      ELSE IF time_to_expiry < 0 THEN Raise("ValueError: math domain error")
      ELSE IF spread = 0 THEN Raise("ZeroDivisionError")
      ELSE Payoff(option_type, self.share_price, strike_price,
                  Exp(-FMul(risk_free_rate, time_to_expiry)), d1, d2)

(* ------------------------------- inputs ------------------------------- *)

Tickers == {"AAPL"}
Prices == {-2 * Scale, 0, 2 * Scale}
Volatilities == {0, Scale \div 4, Huge}
MarketCaps == {0}
DividendYields == {0}
Sectors == {"Unknown"}
ExpiryStrings ==
  {"2024-03-01", "2025-03-01", "2024-3-1",
   "2024-02-30", "2024-13-01", "2024/03/01"}
TradingDays == {252}
Strikes == {-2 * Scale, 0, 3 * Scale}
OptionTypes == {"call", "put", "swap"}

\* the clock starts at 2024-02-29 00:00
StartInstant == Midnight([year |-> 2024, month |-> 2, day |-> 29])

(* ------------------------------- state -------------------------------- *)

VARIABLES
  objs,   \* the objects the caller holds, by slot; NoObj before construction
  now,    \* datetime.now()
  ret,    \* how the latest call ended, with its arguments
  prev    \* history: the valuation before the latest one

vars == <<objs, now, ret, prev>>

\* the two references the script holds
Slots == {"stock", "share_option"}
NoObj == [class |-> "none"]
NoCall == [op |-> "none"]

IsOption(i) == objs[i].class = "ShareOption"
IsShare(i) == objs[i].class \in {"Share", "ShareOption"}

Init ==
  /\ objs = [i \in Slots |-> NoObj]
  /\ now = StartInstant
  /\ ret = NoCall
  /\ prev = NoCall

(* ------------------------------ actions ------------------------------- *)

\* objs[i] = Share(...)
NewShare(i) ==
  /\ objs[i] = NoObj
  /\ \E ticker \in Tickers, share_price \in Prices, volatility \in Volatilities,
        market_cap \in MarketCaps, dividend_yield \in DividendYields,
        sector \in Sectors :
        /\ objs' = [objs EXCEPT ![i] = ShareInit(ticker, share_price, volatility,
                                         market_cap, dividend_yield, sector)]
        /\ ret' = [op |-> "Share.__init__", self |-> i, result |-> Return("None")]
  /\ UNCHANGED <<now, prev>>

\* objs[i] = ShareOption(..., expiry_date); nothing is bound when it raises
NewShareOption(i) ==
  /\ objs[i] = NoObj
  /\ \E ticker \in Tickers, share_price \in Prices, volatility \in Volatilities,
        market_cap \in MarketCaps, dividend_yield \in DividendYields,
        sector \in Sectors, expiry_date \in ExpiryStrings :
        LET made == ShareOptionInit(ticker, share_price, volatility, market_cap,
                                    dividend_yield, sector, expiry_date)
        IN  /\ objs' = IF made.status = "return"
                         THEN [objs EXCEPT ![i] = made.value] ELSE objs
            /\ ret' = [op |-> "ShareOption.__init__", self |-> i,
                       expiry_date |-> expiry_date,
                       result |-> IF made.status = "return"
                                    THEN Return("None") ELSE made]
  /\ UNCHANGED <<now, prev>>

\* repr(objs[i])
Repr(i) ==
  /\ IsShare(i)
  /\ ret' = [op |-> "__repr__", self |-> i,
             result |-> Return(IF IsOption(i) THEN ShareOptionRepr(objs[i])
                               ELSE ShareRepr(objs[i]))]
  /\ UNCHANGED <<objs, now, prev>>

\* a slip: the annualized figure written back to self.volatility
CalculateAnnualizedVolatilityInPlace(i) ==
  /\ IsShare(i)
  /\ \E trading_days \in TradingDays :
        /\ ret' = [op |-> "calculate_annualized_volatility", self |-> i,
                   trading_days |-> trading_days,
                   result |-> Return(AnnualizedVolatility(objs[i], trading_days))]
        /\ objs' = [objs EXCEPT
                      ![i].volatility = AnnualizedVolatility(objs[i], trading_days)]
  /\ UNCHANGED <<now, prev>>

\* objs[i].calculate_annualized_volatility(trading_days)
CalculateAnnualizedVolatility(i) ==
  /\ IsShare(i)
  /\ \E trading_days \in TradingDays :
        ret' = [op |-> "calculate_annualized_volatility", self |-> i,
                trading_days |-> trading_days,
                result |-> Return(AnnualizedVolatility(objs[i], trading_days))]
  /\ UNCHANGED <<objs, now, prev>>

\* objs[i].calculate_risk_free_rate()
CalculateRiskFreeRate(i) ==
  /\ IsOption(i)
  /\ ret' = [op |-> "calculate_risk_free_rate", self |-> i,
             result |-> Return(RiskFreeRate)]
  /\ UNCHANGED <<objs, now, prev>>

\* what objs[i].calculate_option_value(strike_price, option_type) leaves in
\* ret when called now
Valuation(i, strike_price, option_type) ==
  [op |-> "calculate_option_value", self |-> i, obj |-> objs[i],
   strike_price |-> strike_price, option_type |-> option_type, at |-> now,
   result |-> OptionValue(objs[i], strike_price, option_type, now)]

\* objs[i].calculate_option_value(strike_price, option_type)
CalculateOptionValue(i) ==
  /\ IsOption(i)
  /\ \E strike_price \in Strikes, option_type \in OptionTypes :
        ret' = Valuation(i, strike_price, option_type)
  /\ UNCHANGED <<objs, now, prev>>

\* time passes
Tick ==
  /\ now < StartInstant + MaxElapsed
  /\ now' = now + 1
  /\ UNCHANGED <<objs, ret, prev>>

Next ==
  \/ \E i \in Slots : NewShare(i)
  \/ \E i \in Slots : NewShareOption(i)
  \/ \E i \in Slots : Repr(i)
  \/ \E i \in Slots : CalculateAnnualizedVolatility(i)
  \/ \E i \in Slots : CalculateRiskFreeRate(i)
  \/ \E i \in Slots : CalculateOptionValue(i)
  \/ Tick

Spec == Init /\ [][Next]_vars

(* ---------------- the valuation as a function of its inputs ------------ *)

\* the ShareOption objects the constructor can build
Options ==
  LET made == {ShareOptionInit(t, s, v, m, d, c, e) :
                 t \in Tickers, s \in Prices, v \in Volatilities,
                 m \in MarketCaps, d \in DividendYields, c \in Sectors,
                 e \in ExpiryStrings}
  IN  {r.value : r \in {x \in made : x.status = "return"}}

\* one option, held by share_option, when the clock starts
InitValue ==
  /\ \E o \in Options :
        objs = [i \in Slots |-> IF i = "share_option" THEN o ELSE NoObj]
  /\ now = StartInstant
  /\ ret = NoCall
  /\ prev = NoCall

\* a valuation, remembering the one before it
Revalue(i) ==
  /\ IsOption(i)
  /\ \E strike_price \in Strikes, option_type \in OptionTypes :
        ret' = Valuation(i, strike_price, option_type)
  /\ prev' = ret
  /\ UNCHANGED <<objs, now>>

NextValue ==
  \/ \E i \in Slots : Revalue(i)
  \/ Tick

SpecValue == InitValue /\ [][NextValue]_vars

(* ------------------------------- claims ------------------------------- *)

IsValuation(c) == c.op = "calculate_option_value"

\* (expiry_date - instant of the call).days of a recorded valuation
DaysLeft(c) == DeltaDays(Midnight(c.obj.expiry_date), c.at)

SameCall(a, b) ==
  /\ IsValuation(a) /\ IsValuation(b)
  /\ a.self = b.self /\ a.obj = b.obj
  /\ a.strike_price = b.strike_price

\* the inputs on which d1 and d2 are computed without error
Computable(c) ==
  /\ c.strike_price # 0
  /\ c.obj.share_price * c.strike_price > 0
  /\ c.obj.volatility # 0 /\ Abs(c.obj.volatility) < Huge
  /\ DaysLeft(c) > 0

InvalidKind == Raise("ValueError: Invalid option type")

NumericErrors ==
  {"ZeroDivisionError", "ValueError: math domain error", "OverflowError"}

\* C1 as stated, for S > 0, K > 0 and a volatility > 0 with a finite square:
\* a valuation with an option type other than "call" and "put" raises the
\* 'Invalid option type' ValueError, at every instant.
C1_InvalidKindAlwaysReported ==
  (/\ IsValuation(ret) /\ ret.option_type \notin {"call", "put"}
   /\ ret.obj.share_price > 0 /\ ret.strike_price > 0
   /\ ret.obj.volatility > 0 /\ Abs(ret.obj.volatility) < Huge)
    => ret.result = InvalidKind

\* C1 amended: a valuation with an option type other than "call" and "put"
\* raises the 'Invalid option type' ValueError and returns nothing whenever
\* d1 and d2 are computable (K # 0, S/K > 0, volatility # 0 with a finite
\* square, T > 0).
C1_InvalidKindReportedWhenComputable ==
  (IsValuation(ret) /\ ret.option_type \notin {"call", "put"} /\ Computable(ret))
    => ret.result = InvalidKind

C1_Witness ==
  /\ IsValuation(ret) /\ ret.option_type = "swap" /\ Computable(ret)
  /\ ret.obj.share_price > 0 /\ ret.obj.volatility > 0
  /\ ret.result = InvalidKind

\* the format the specification names: YYYY-MM-DD, each field at full width
IsStrictYmd(s) ==
  /\ Len(s) = 10
  /\ \A k \in {1, 2, 3, 4, 6, 7, 9, 10} : IsDigit(At(s, k))
  /\ At(s, 5) = "-" /\ At(s, 8) = "-"

\* C2 as stated: a ShareOption is constructed only from a valid calendar
\* date written as YYYY-MM-DD; every other string raises and binds nothing.
C2_OnlyStrictDatesConstruct ==
  ret.op = "ShareOption.__init__" =>
    (ret.result.status = "return" <=>
       /\ IsStrictYmd(ret.expiry_date)
       /\ IntOf(SubSeq(ret.expiry_date, 6, 7)) \in 1 .. 12
       /\ IntOf(SubSeq(ret.expiry_date, 1, 4)) >= 1
       /\ IntOf(SubSeq(ret.expiry_date, 9, 10)) \in
            1 .. DaysInMonth(IntOf(SubSeq(ret.expiry_date, 1, 4)),
                             IntOf(SubSeq(ret.expiry_date, 6, 7))))

\* C3 as stated: with S > 0, volatility > 0, K > 0, an option type of "call"
\* or "put" and T > 0 the valuation returns a number.
C3_ValidInputsReturn ==
  (/\ IsValuation(ret)
   /\ ret.obj.share_price > 0 /\ ret.obj.volatility > 0
   /\ ret.strike_price > 0 /\ ret.option_type \in {"call", "put"}
   /\ DaysLeft(ret) > 0)
    => ret.result.status = "return"

\* C3 amended: with S > 0, K > 0, T > 0, an option type of "call" or "put"
\* and a volatility > 0 whose square is a finite double, the valuation
\* raises nothing and returns a finite number (of magnitude at most S + K).
C3_ValidInputsInRangeReturn ==
  (/\ IsValuation(ret)
   /\ ret.obj.share_price > 0 /\ ret.obj.volatility > 0
   /\ Abs(ret.obj.volatility) < Huge
   /\ ret.strike_price > 0 /\ ret.option_type \in {"call", "put"}
   /\ DaysLeft(ret) > 0)
    => /\ ret.result.status = "return"
       /\ ret.result.value \in Int
       /\ Abs(ret.result.value) <= ret.obj.share_price + ret.strike_price

C3_Witness ==
  /\ IsValuation(ret)
  /\ ret.obj.share_price > 0 /\ ret.obj.volatility > 0
  /\ Abs(ret.obj.volatility) < Huge
  /\ ret.strike_price > 0 /\ ret.option_type = "call" /\ DaysLeft(ret) > 0
  /\ ret.result.status = "return" /\ ret.result.value > 0

\* C4 as stated, for S > 0, K > 0 and a volatility > 0 with a finite square:
\* a valuation at an instant with T <= 0 raises ExpiredOptionError (read
\* generously: the error of the first operation on T to fail, math.sqrt),
\* whatever the option type.
C4_ExpiredRaisesExpiredOptionError ==
  (/\ IsValuation(ret) /\ DaysLeft(ret) <= 0
   /\ ret.obj.share_price > 0 /\ ret.strike_price > 0
   /\ ret.obj.volatility > 0 /\ Abs(ret.obj.volatility) < Huge)
    => /\ ret.result.status = "raise"
       /\ ret.result.exc \in {"ExpiredOptionError", "ValueError: math domain error"}

\* C5 as stated: a valuation with K <= 0 or S <= 0 fails and returns no value,
\* S < 0 together with K < 0 included.
C5_BadPriceReturnsNothing ==
  (IsValuation(ret) /\ (ret.strike_price <= 0 \/ ret.obj.share_price <= 0))
    => ret.result.status = "raise"

\* C6 as stated, for S > 0 and K > 0: a valuation of an option with
\* volatility 0 raises ZeroVolatilityError (read generously: the
\* ZeroDivisionError of the division by volatility * sqrt(T)), whatever the
\* option type and T.
C6_ZeroVolatilityRaisesItsError ==
  (/\ IsValuation(ret) /\ ret.obj.volatility = 0
   /\ ret.obj.share_price > 0 /\ ret.strike_price > 0)
    => /\ ret.result.status = "raise"
       /\ ret.result.exc \in {"ZeroVolatilityError", "ZeroDivisionError"}

\* C7: put-call parity. A call and a put on the same option, with the same
\* strike, valued at the same instant, differ by S - K * exp(-r * T), up to
\* the rounding of the four products (one unit in the last place each).
C7_PutCallParity ==
  (/\ SameCall(prev, ret) /\ prev.at = ret.at
   /\ prev.option_type = "call" /\ ret.option_type = "put"
   /\ prev.result.status = "return" /\ ret.result.status = "return")
    => LET T == TDiv(DaysLeft(ret) * Scale, DaysPerYear)
           forward == ret.obj.share_price
                        - FMul(ret.strike_price, Exp(-FMul(RiskFreeRate, T)))
       IN  Abs((prev.result.value - ret.result.value) - forward) <= 2

C7_Witness ==
  /\ SameCall(prev, ret) /\ prev.at = ret.at
  /\ prev.option_type = "call" /\ ret.option_type = "put"
  /\ prev.result.status = "return" /\ ret.result.status = "return"
  /\ prev.result.value > 0 /\ ret.result.value > 0
  /\ ret.obj.share_price > 0

\* C8: no call changes an object once it is constructed: every slot that
\* holds an object holds the same attribute values after every step.
C8_NoMutation ==
  [][\A i \in Slots : objs[i] # NoObj => objs'[i] = objs[i]]_vars

C8_Witness ==
  /\ \A i \in Slots : objs[i] # NoObj
  /\ IsValuation(ret) /\ ret.result.status = "raise"
  /\ objs[ret.self] = ret.obj
  /\ now > ret.at

\* C9 as stated, for two instants of one day: two valuations of the same
\* option with the same strike and option type at two different instants
\* return different values.
C9_DifferentInstantsDifferentValues ==
  (/\ SameCall(prev, ret) /\ prev.option_type = ret.option_type
   /\ prev.at # ret.at /\ DaysLeft(prev) = DaysLeft(ret)
   /\ ret.obj.share_price > 0 /\ ret.strike_price > 0
   /\ prev.result.status = "return" /\ ret.result.status = "return")
    => prev.result.value # ret.result.value

\* C9 amended: the time to expiry is taken from the instant of each call as
\* (expiry_date - now).days / 365.0: two valuations of the same option with
\* the same strike and option type end the same way whenever that whole
\* number of days is the same, and a valuation whose d1 and d2 are computable
\* but for T returns for a day count above 0 and raises at or below 0.
C9_ValuationFollowsDayCount ==
  /\ (/\ SameCall(prev, ret) /\ prev.option_type = ret.option_type
      /\ DaysLeft(prev) = DaysLeft(ret))
       => prev.result = ret.result
  /\ (/\ IsValuation(ret) /\ ret.option_type \in {"call", "put"}
      /\ ret.obj.share_price * ret.strike_price > 0
      /\ ret.obj.volatility # 0 /\ Abs(ret.obj.volatility) < Huge)
       => (ret.result.status = "return" <=> DaysLeft(ret) > 0)

C9_Witness ==
  /\ SameCall(prev, ret) /\ prev.option_type = ret.option_type
  /\ prev.at # ret.at /\ DaysLeft(prev) = DaysLeft(ret)
  /\ prev.result.status = "return" /\ prev.result = ret.result

\* C10: the option type is looked at after d1 and d2: the 'Invalid option
\* type' error is raised only on inputs for which d1 and d2 are computable,
\* and with T <= 0, volatility 0, K = 0 or S/K <= 0 a numeric error is raised
\* whatever the option type.
C10_KindCheckedLast ==
  IsValuation(ret) =>
    /\ ret.result = InvalidKind => Computable(ret)
    /\ (\/ DaysLeft(ret) <= 0 \/ ret.obj.volatility = 0
        \/ ret.strike_price = 0
        \/ ret.obj.share_price * ret.strike_price <= 0)
         => /\ ret.result.status = "raise"
            /\ ret.result.exc \in NumericErrors

C10_Witness ==
  /\ IsValuation(ret) /\ ret.option_type = "swap"
  /\ ret.strike_price = 0 /\ DaysLeft(ret) > 0
  /\ ret.result = Raise("ZeroDivisionError")

====
